---- MODULE Spec2Model ----
(***************************************************************************)
(* JustEat food ordering application: the cart, the order placement        *)
(* pipeline, menu editing and the order status workflow, as implemented by *)
(* the request handlers of routes/customer.py and routes/restaurant.py     *)
(* over the tables of models.py.                                           *)
(*                                                                         *)
(* Requests are served concurrently (app.run(debug=True) is a threaded     *)
(* server); each request owns a database session whose writes become       *)
(* visible to the others at db.session.commit() and are discarded by       *)
(* db.session.rollback().  Money is counted in cents.                      *)
(***************************************************************************)
EXTENDS Integers, Sequences, FiniteSets, TLC

\* ------------------------------------------------------------------ bounds
MaxRequests == 3      \* requests received in one behaviour
MaxClock == 4         \* the last half day the clock reaches

Slots == {1, 2}       \* requests in flight at once

\* --------------------------------------------------------- reference data
Users == {1, 2, 3, 4}
\* who can send a request: the users, a visitor who is not logged in (0,
\* flask_login's AnonymousUserMixin) and an admin (5)
Accounts == Users \cup {0, 5}
Role == [u \in Accounts |-> IF u = 0 THEN "anonymous"
                            ELSE IF u \in {1, 2} THEN "customer"
                            ELSE IF u = 5 THEN "admin" ELSE "restaurant_owner"]

MenuItemIds == {1, 2, 3}
MenuItemInputs == {1, 2, 3, 9}     \* request.json "menu_item_id": the menu and an id not in it
RestaurantIds == {1, 2}
Prices == {2, 5}                   \* cents
AddQuantities == {0, 1, 2}         \* request.json "quantity" of add-to-cart
UpdateQuantities == {0, 1, 3}      \* request.json "quantity" of update-cart

OrderStatuses == {"pending", "confirmed", "preparing", "ready", "delivered", "cancelled"}
StatusInputs == OrderStatuses \cup {"refunded"}

\* time is counted in half days from 00:00 UTC of day 0; the server's local
\* time zone is ahead of UTC by tz half days
TzOffsets == {0, 1}
Micros == {0, 1}                   \* the %f field of the order number's timestamp
Randoms == {100, 101}              \* random.randint(100, 999)

\* ------------------------------------------------------ response messages
MsgDenied == "Access denied."
MsgLoginRequired == "Please log in to access this page."
MsgAdded == "Item added to cart!"
MsgAddError == "Error adding item to cart"
MsgUnauthorized == "Unauthorized"
MsgUnauthorizedAccess == "Unauthorized access."
MsgCartUpdated == "Cart updated!"
MsgUpdateError == "Error updating cart"
MsgRemoved == "Item removed from cart."
MsgRemoveError == "Error removing item from cart."
MsgCartEmpty == "Your cart is empty."
MsgOrderPlaced == "Order placed successfully!"
MsgPlaceError == "Error placing order. Please try again."
MsgStatusUpdated == "Order status updated!"
MsgInvalidStatus == "Invalid status"
MsgStatusError == "Error updating order status"
MsgMenuUpdated == "Menu item updated successfully!"
MsgNotFound == "404"
MsgMenuError == "Error fetching menu"
MsgItemDeleted == "Menu item deleted successfully!"
MsgItemInOrders == "Cannot delete this menu item because it is part of existing orders."
MsgDeleteItemError == "Error deleting menu item."
MsgRestaurantDeleted == "Restaurant deleted successfully."
MsgRestaurantHasOrders == "Cannot delete this restaurant because it has existing orders."
MsgDeleteRestaurantError == "Error deleting restaurant."

VARIABLES
    restaurants,     \* table restaurants: [id, owner_id]
    menu_items,      \* table menu_items: [id, restaurant_id, price, is_available]
    cart,            \* table cart: [id, user_id, menu_item_id, quantity]
    orders,          \* table orders: [id, order_number, customer_id, restaurant_id,
                     \*                total_amount, status, created_at, updated_at]
    order_items,     \* table order_items: [order_id, line, menu_item_id, quantity, price]
    next_cart_id,    \* AUTO_INCREMENT of cart.id
    next_order_id,   \* AUTO_INCREMENT of orders.id
    req,             \* per request slot: position and locals of the handler
    received,        \* number of requests received so far
    shipped,         \* history: [cart_id, order_id] for every cart row turned into an OrderItem
    now,             \* the clock
    tz,              \* the server's time zone
    notifications,   \* notification_service.notifications: the Notification objects created
    in_app_notifications,    \* table in_app_notifications: [id, user_id, notification_type, order_id]
    next_notification_id,    \* AUTO_INCREMENT of in_app_notifications.id
    notify_result,   \* how the last call of send_order_notification ended
    requests,        \* rate_limit.requests: per client IP the times of the recorded requests
    limiter,         \* per thread: position and locals of rate_limit's decorated_function
    admitted,        \* history: [ip, time] of every request passed on to the wrapped function
    arrivals,        \* number of requests that have reached the rate limiter
    cache_values,    \* cache._cache: key -> value
    cache_expiry,    \* cache._expiry: key -> time after which the entry is expired
    cache_result,    \* what the last cache.get returned
    last_set,        \* history: per key the most recent set that no delete or clear followed
    cache_ops,       \* number of calls made to the cache
    fk_enforced      \* whether the database of SQLALCHEMY_DATABASE_URI enforces foreign keys

vars == <<restaurants, menu_items, cart, orders, order_items, next_cart_id, next_order_id,
          req, received, shipped, now, tz,
          notifications, in_app_notifications, next_notification_id, notify_result,
          requests, limiter, admitted, arrivals,
          cache_values, cache_expiry, cache_result, last_set, cache_ops, fk_enforced>>
\* the tables and the requests of the routes
web == <<restaurants, menu_items, cart, orders, order_items, next_cart_id, next_order_id,
         req, received, shipped>>
\* the notification service
notes == <<notifications, in_app_notifications, next_notification_id, notify_result>>
\* the rate limiter
limits == <<requests, limiter, admitted, arrivals>>
\* what the request handlers of the routes never touch
\* the cache
caches == <<cache_values, cache_expiry, cache_result, last_set, cache_ops>>
aux == <<notes, limits, caches, fk_enforced>>
tables == <<restaurants, menu_items, cart, orders, order_items>>

\* ----------------------------------------------------------------- helpers
\* @login_required turns a visitor away before the role decorator is reached
Denial(u) == IF Role[u] = "anonymous" THEN MsgLoginRequired ELSE MsgDenied

NoRow == [id |-> 0, quantity |-> 0]

Idle ==
    [pc |-> "idle", op |-> "none", user |-> 0, menu_item_id |-> 0, quantity |-> 0,
     is_available |-> FALSE, existing_cart_item |-> NoRow,
     cart_items |-> <<>>, restaurants |-> <<>>, new_orders |-> {}, new_order_items |-> {},
     menu |-> {}, restaurant_id |-> 0, doomed |-> {}, success |-> FALSE, message |-> "none"]

\* A handler that has returned: its locals are gone, the response is on its way.
Respond(rq, ok, msg) ==
    [Idle EXCEPT !.pc = "done", !.op = rq.op, !.user = rq.user, !.success = ok, !.message = msg]

RECURSIVE SumSeq(_)
SumSeq(s) == IF s = <<>> THEN 0 ELSE Head(s) + SumSeq(Tail(s))

RECURSIVE SetToSeqById(_)
\* rows of a table in primary-key order
SetToSeqById(S) ==
    IF S = {} THEN <<>>
    ELSE LET m == CHOOSE x \in S : \A y \in S : x.id <= y.id
         IN <<m>> \o SetToSeqById(S \ {m})

MenuItemById(mid) == CHOOSE m \in menu_items : m.id = mid
RestaurantById(rid) == CHOOSE x \in restaurants : x.id = rid

\* -------------------------------------------------- add-to-cart (customer)
\* mutant: the role of the caller is not looked at
add_to_cart_any_role(r, u, mid, q) ==
    /\ req[r].pc = "idle"
    /\ \E m \in menu_items : m.id = mid
    /\ req' = [req EXCEPT ![r] =
                 [Idle EXCEPT !.op = "add_to_cart", !.user = u, !.menu_item_id = mid,
                              !.quantity = q, !.pc = "add_commit",
                              !.is_available = MenuItemById(mid).is_available]]
    /\ UNCHANGED <<tables, next_cart_id, next_order_id>>

\* add_to_cart up to the Cart query: role check, MenuItem.query.get_or_404,
\* Cart.query.filter_by(user_id, menu_item_id).first()
add_to_cart(r, u, mid, q) ==
    /\ req[r].pc = "idle"
    /\ LET rq == [Idle EXCEPT !.op = "add_to_cart", !.user = u,
                              !.menu_item_id = mid, !.quantity = q]
           matches == {c \in cart : c.user_id = u /\ c.menu_item_id = mid}
       IN IF Role[u] # "customer"
          THEN req' = [req EXCEPT ![r] = Respond(rq, FALSE, Denial(u))]
          ELSE IF ~ \E m \in menu_items : m.id = mid
          THEN req' = [req EXCEPT ![r] = Respond(rq, FALSE, MsgAddError)]
          ELSE IF matches = {}
          THEN req' = [req EXCEPT ![r] =
                         [rq EXCEPT !.pc = "add_commit",
                                    !.is_available = MenuItemById(mid).is_available]]
          ELSE \E c \in matches :
                    req' = [req EXCEPT ![r] =
                              [rq EXCEPT !.pc = "add_commit",
                                         !.is_available = MenuItemById(mid).is_available,
                                         !.existing_cart_item =
                                             [id |-> c.id, quantity |-> c.quantity]]]
    /\ UNCHANGED <<tables, next_cart_id, next_order_id>>

\* mutant: the quantity is assigned instead of incremented
AddedQuantity_overwrite(old, q) == q

\* existing_cart_item.quantity += quantity: the UPDATE writes the value computed
\* from the row as it was read
AddedQuantity(old, q) == old + q

\* add_to_cart from the branch on existing_cart_item to the response
add_to_cart_commit(r) ==
    /\ req[r].pc = "add_commit"
    /\ LET rq == req[r]
           ex == rq.existing_cart_item
       IN IF ex # NoRow
          THEN IF \E c \in cart : c.id = ex.id
               THEN /\ cart' = {IF c.id = ex.id
                                THEN [c EXCEPT !.quantity = AddedQuantity(ex.quantity, rq.quantity)]
                                ELSE c : c \in cart}
                    /\ req' = [req EXCEPT ![r] = Respond(rq, TRUE, MsgAdded)]
                    /\ next_cart_id' = next_cart_id
               ELSE \* the row was deleted meanwhile: the UPDATE matches no row
                    /\ cart' = cart
                    /\ req' = [req EXCEPT ![r] = Respond(rq, FALSE, MsgAddError)]
                    /\ next_cart_id' = next_cart_id
          ELSE IF fk_enforced /\ ~ \E m \in menu_items : m.id = rq.menu_item_id
          THEN \* the menu item was deleted meanwhile: the INSERT fails its foreign key
               /\ cart' = cart
               /\ next_cart_id' = next_cart_id + 1
               /\ req' = [req EXCEPT ![r] = Respond(rq, FALSE, MsgAddError)]
          ELSE /\ cart' = cart \cup {[id |-> next_cart_id, user_id |-> rq.user,
                                      menu_item_id |-> rq.menu_item_id,
                                      quantity |-> rq.quantity]}
               /\ next_cart_id' = next_cart_id + 1
               /\ req' = [req EXCEPT ![r] = Respond(rq, TRUE, MsgAdded)]
    /\ UNCHANGED <<restaurants, menu_items, orders, order_items, next_order_id>>

\* mutant: the quantity is added to the old one
update_cart_additive(r, u, cid, q) ==
    /\ req[r].pc = "idle"
    /\ Role[u] = "customer"
    /\ \E c \in cart :
          /\ c.id = cid /\ c.user_id = u
          /\ cart' = IF q <= 0 THEN cart \ {c}
                     ELSE (cart \ {c}) \cup {[c EXCEPT !.quantity = c.quantity + q]}
    /\ req' = [req EXCEPT ![r] =
                 Respond([Idle EXCEPT !.op = "update_cart", !.user = u], TRUE, MsgCartUpdated)]
    /\ UNCHANGED <<restaurants, menu_items, orders, order_items, next_cart_id, next_order_id>>

\* ------------------------------------------------------------- update-cart
update_cart(r, u, cid, q) ==
    /\ req[r].pc = "idle"
    /\ LET rq == [Idle EXCEPT !.op = "update_cart", !.user = u, !.quantity = q,
                              !.existing_cart_item = [id |-> cid, quantity |-> 0]]
       IN IF Role[u] # "customer"
          THEN /\ req' = [req EXCEPT ![r] = Respond(rq, FALSE, Denial(u))]
               /\ cart' = cart
          ELSE IF ~ \E c \in cart : c.id = cid
          THEN /\ req' = [req EXCEPT ![r] = Respond(rq, FALSE, MsgUpdateError)]
               /\ cart' = cart
          ELSE LET cart_item == CHOOSE c \in cart : c.id = cid
               IN IF cart_item.user_id # u
                  THEN /\ req' = [req EXCEPT ![r] = Respond(rq, FALSE, MsgUnauthorized)]
                       /\ cart' = cart
                  ELSE /\ cart' = IF q <= 0
                                  THEN cart \ {cart_item}
                                  ELSE (cart \ {cart_item})
                                       \cup {[cart_item EXCEPT !.quantity = q]}
                       /\ req' = [req EXCEPT ![r] = Respond(rq, TRUE, MsgCartUpdated)]
    /\ UNCHANGED <<restaurants, menu_items, orders, order_items, next_cart_id, next_order_id>>

\* mutant: the row is deleted whoever owns it
remove_from_cart_unchecked(r, u, cid) ==
    /\ req[r].pc = "idle"
    /\ Role[u] = "customer"
    /\ \E c \in cart : c.id = cid /\ cart' = cart \ {c}
    /\ req' = [req EXCEPT ![r] =
                 Respond([Idle EXCEPT !.op = "remove_from_cart", !.user = u], TRUE, MsgRemoved)]
    /\ UNCHANGED <<restaurants, menu_items, orders, order_items, next_cart_id, next_order_id>>

\* -------------------------------------------------------- remove-from-cart
remove_from_cart(r, u, cid) ==
    /\ req[r].pc = "idle"
    /\ LET rq == [Idle EXCEPT !.op = "remove_from_cart", !.user = u,
                              !.existing_cart_item = [id |-> cid, quantity |-> 0]]
       IN IF Role[u] # "customer"
          THEN /\ req' = [req EXCEPT ![r] = Respond(rq, FALSE, Denial(u))]
               /\ cart' = cart
          ELSE IF ~ \E c \in cart : c.id = cid
          THEN /\ req' = [req EXCEPT ![r] = Respond(rq, FALSE, MsgRemoveError)]
               /\ cart' = cart
          ELSE LET cart_item == CHOOSE c \in cart : c.id = cid
               IN IF cart_item.user_id # u
                  THEN /\ req' = [req EXCEPT ![r] = Respond(rq, FALSE, MsgUnauthorizedAccess)]
                       /\ cart' = cart
                  ELSE /\ cart' = cart \ {cart_item}
                       /\ req' = [req EXCEPT ![r] = Respond(rq, TRUE, MsgRemoved)]
    /\ UNCHANGED <<restaurants, menu_items, orders, order_items, next_cart_id, next_order_id>>

\* ------------------------------------------------------------- place-order
\* keys of the dict `restaurants` in insertion order: the restaurant ids of the
\* loaded cart rows, each at its first appearance
RECURSIVE RestaurantKeys(_, _)
RestaurantKeys(items, seen) ==
    IF items = <<>> THEN <<>>
    ELSE LET rid == Head(items).menu_item.restaurant_id
         IN IF rid \in seen
            THEN RestaurantKeys(Tail(items), seen)
            ELSE <<rid>> \o RestaurantKeys(Tail(items), seen \cup {rid})

\* mutant: the cart is not grouped, every Order takes every loaded row
Partition_ungrouped(items, rid) == items

\* restaurants[rid]: the loaded cart rows of one restaurant, in load order
Partition(items, rid) ==
    SelectSeq(items, LAMBDA it : it.menu_item.restaurant_id = rid)

\* mutant: the total forgets the quantities
OrderTotal_unit(items) ==
    SumSeq([k \in 1..Len(items) |-> items[k].menu_item.price])

\* total = sum(item.menu_item.price * item.quantity for item in items)
OrderTotal(items) ==
    SumSeq([k \in 1..Len(items) |-> items[k].menu_item.price * items[k].quantity])

\* mutant: an empty cart is not turned away
place_order_empty_proceeds(r, u) ==
    /\ req[r].pc = "idle"
    /\ Role[u] = "customer"
    /\ ~ \E c \in cart : c.user_id = u
    /\ req' = [req EXCEPT ![r] =
                 [Idle EXCEPT !.op = "place_order", !.user = u, !.pc = "place_create"]]
    /\ UNCHANGED <<tables, next_cart_id, next_order_id>>

\* place_order up to the grouping loop: role check, the Cart query, the lazy
\* load of each row's menu_item, the empty-cart return
place_order(r, u) ==
    /\ req[r].pc = "idle"
    /\ LET rq == [Idle EXCEPT !.op = "place_order", !.user = u]
           rows == SetToSeqById({c \in cart : c.user_id = u})
           loaded == [k \in 1..Len(rows) |->
                        [id |-> rows[k].id, menu_item_id |-> rows[k].menu_item_id,
                         quantity |-> rows[k].quantity,
                         menu_item |-> MenuItemById(rows[k].menu_item_id)]]
       IN IF Role[u] # "customer"
          THEN req' = [req EXCEPT ![r] = Respond(rq, FALSE, Denial(u))]
          ELSE IF rows = <<>>
          THEN req' = [req EXCEPT ![r] = Respond(rq, FALSE, MsgCartEmpty)]
          ELSE IF \E k \in 1..Len(rows) : ~ \E m \in menu_items : m.id = rows[k].menu_item_id
          THEN \* item.menu_item is None: item.menu_item.restaurant_id raises
               req' = [req EXCEPT ![r] = Respond(rq, FALSE, MsgPlaceError)]
          ELSE req' = [req EXCEPT ![r] =
                         [rq EXCEPT !.pc = "place_create", !.cart_items = loaded,
                                    !.restaurants = RestaurantKeys(loaded, {})]]
    /\ UNCHANGED <<tables, next_cart_id, next_order_id>>

\* f"ORD{datetime.now().strftime('%Y%m%d%H%M%S%f')}{current_user.id}{random.randint(100, 999)}":
\* the digits of the local time, of the user id and of the random number, in a row
OrderNumber(stamp, micro, user_id, rnd) == ((stamp * 10 + micro) * 10 + user_id) * 1000 + rnd

\* the timestamps of the order numbers generated so far: the clock does not run
\* backwards, and the first reading and the first random number stand for any
StampsRead ==
    {o.order_number \div 10000 : o \in orders \cup UNION {req[s].new_orders : s \in Slots}}

\* one iteration of "for restaurant_id, items in restaurants.items()": the Order
\* is added and flushed, its OrderItems are added to the session.  The INSERT
\* of an order_number that another open transaction has inserted waits for that
\* transaction to end; one that is already in the table (or was inserted by
\* this transaction) raises IntegrityError, and the handler rolls back; so
\* does, where foreign keys are enforced, the INSERT of an Order whose
\* restaurant has been deleted.
place_order_create(r) ==
    /\ req[r].pc = "place_create"
    /\ req[r].restaurants # <<>>
    /\ \E micro \in Micros, rnd \in Randoms :
          LET rq == req[r]
              restaurant_id == Head(rq.restaurants)
              items == Partition(rq.cart_items, restaurant_id)
              order_number == OrderNumber(now + tz, micro, rq.user, rnd)
              order == [id |-> next_order_id, order_number |-> order_number,
                        customer_id |-> rq.user, restaurant_id |-> restaurant_id,
                        total_amount |-> OrderTotal(items), status |-> "pending",
                        created_at |-> now, updated_at |-> now]
              lines == {[order_id |-> order.id, line |-> k,
                         menu_item_id |-> items[k].menu_item_id,
                         quantity |-> items[k].quantity,
                         price |-> items[k].menu_item.price] : k \in 1..Len(items)}
          IN /\ \A t \in StampsRead : t <= (now + tz) * 10 + micro
             /\ StampsRead = {} => (\A m \in Micros : micro <= m) /\ (\A n \in Randoms : rnd <= n)
             /\ \A s \in Slots \ {r} : \A o \in req[s].new_orders : o.order_number # order_number
             /\ IF \/ \E o \in orders \cup rq.new_orders : o.order_number = order_number
                   \/ fk_enforced /\ ~ \E x \in restaurants : x.id = restaurant_id
                THEN req' = [req EXCEPT ![r] = Respond(rq, FALSE, MsgPlaceError)]
                ELSE req' = [req EXCEPT ![r] =
                               [rq EXCEPT !.restaurants = Tail(rq.restaurants),
                                          !.new_orders = rq.new_orders \cup {order},
                                          !.new_order_items = rq.new_order_items \cup lines]]
    /\ next_order_id' = next_order_id + 1
    /\ UNCHANGED <<tables, next_cart_id>>

\* mutant: the bulk delete is not filtered by user
place_order_commit_clears_all(r) ==
    /\ req[r].pc = "place_create"
    /\ req[r].restaurants = <<>>
    /\ cart' = {}
    /\ orders' = orders \cup req[r].new_orders
    /\ order_items' = order_items \cup req[r].new_order_items
    /\ req' = [req EXCEPT ![r] = Respond(req[r], TRUE, MsgOrderPlaced)]
    /\ UNCHANGED <<restaurants, menu_items, next_cart_id, next_order_id>>

\* the rows this transaction has inserted reference rows that are still there
ReferentsExist(rq) ==
    /\ \A o \in rq.new_orders : \E x \in restaurants : x.id = o.restaurant_id
    /\ \A l \in rq.new_order_items : \E m \in menu_items : m.id = l.menu_item_id

\* Cart.query.filter_by(user_id=current_user.id).delete(); db.session.commit().
\* Where foreign keys are enforced, the INSERT of a row whose restaurant or
\* menu item has been deleted raises IntegrityError and the handler rolls back.
place_order_commit(r) ==
    /\ req[r].pc = "place_create"
    /\ req[r].restaurants = <<>>
    /\ IF fk_enforced /\ ~ ReferentsExist(req[r])
       THEN /\ req' = [req EXCEPT ![r] = Respond(req[r], FALSE, MsgPlaceError)]
            /\ UNCHANGED <<cart, orders, order_items>>
       ELSE /\ cart' = {c \in cart : c.user_id # req[r].user}
            /\ orders' = orders \cup req[r].new_orders
            /\ order_items' = order_items \cup req[r].new_order_items
            /\ req' = [req EXCEPT ![r] = Respond(req[r], TRUE, MsgOrderPlaced)]
    /\ UNCHANGED <<restaurants, menu_items, next_cart_id, next_order_id>>

\* mutant: no rollback, what was flushed before the fault stays
place_order_fault_no_rollback(r) ==
    /\ req[r].pc = "place_create"
    /\ orders' = orders \cup req[r].new_orders
    /\ order_items' = order_items \cup req[r].new_order_items
    /\ req' = [req EXCEPT ![r] = Respond(req[r], FALSE, MsgPlaceError)]
    /\ UNCHANGED <<restaurants, menu_items, cart, next_cart_id, next_order_id>>

\* an exception raised by a flush or by the commit (storage fault):
\* db.session.rollback() discards everything the session has written
place_order_fault(r) ==
    /\ req[r].pc = "place_create"
    /\ req' = [req EXCEPT ![r] = Respond(req[r], FALSE, MsgPlaceError)]
    /\ UNCHANGED <<tables, next_cart_id, next_order_id>>

\* mutant: OrderItems follow the live price of their menu item
edit_menu_item_repricing(r, u, restaurant_id, item_id, price, is_available) ==
    /\ req[r].pc = "idle"
    /\ Role[u] = "restaurant_owner"
    /\ \E x \in restaurants : x.id = restaurant_id /\ x.owner_id = u
    /\ \E m \in menu_items : m.id = item_id /\ m.restaurant_id = restaurant_id
    /\ menu_items' = {IF m.id = item_id
                      THEN [m EXCEPT !.price = price, !.is_available = is_available]
                      ELSE m : m \in menu_items}
    /\ order_items' = {IF l.menu_item_id = item_id THEN [l EXCEPT !.price = price] ELSE l :
                         l \in order_items}
    /\ req' = [req EXCEPT ![r] =
                 Respond([Idle EXCEPT !.op = "edit_menu_item", !.user = u], TRUE, MsgMenuUpdated)]
    /\ UNCHANGED <<restaurants, cart, orders, next_cart_id, next_order_id>>

\* ---------------------------------------------- edit menu item (restaurant)
edit_menu_item(r, u, restaurant_id, item_id, price, is_available) ==
    /\ req[r].pc = "idle"
    /\ LET rq == [Idle EXCEPT !.op = "edit_menu_item", !.user = u, !.menu_item_id = item_id]
       IN IF Role[u] # "restaurant_owner"
          THEN /\ req' = [req EXCEPT ![r] = Respond(rq, FALSE, Denial(u))]
               /\ menu_items' = menu_items
          ELSE IF ~ \E x \in restaurants : x.id = restaurant_id /\ x.owner_id = u
          THEN /\ req' = [req EXCEPT ![r] = Respond(rq, FALSE, MsgNotFound)]
               /\ menu_items' = menu_items
          ELSE IF ~ \E m \in menu_items : m.id = item_id /\ m.restaurant_id = restaurant_id
          THEN /\ req' = [req EXCEPT ![r] = Respond(rq, FALSE, MsgNotFound)]
               /\ menu_items' = menu_items
          ELSE /\ menu_items' = {IF m.id = item_id
                                 THEN [m EXCEPT !.price = price,
                                                !.is_available = is_available]
                                 ELSE m : m \in menu_items}
               /\ req' = [req EXCEPT ![r] = Respond(rq, TRUE, MsgMenuUpdated)]
    /\ UNCHANGED <<restaurants, cart, orders, order_items, next_cart_id, next_order_id>>

\* mutant: updated_at keeps its old value
update_order_status_stale(r, u, order_id, new_status) ==
    /\ req[r].pc = "idle"
    /\ Role[u] = "restaurant_owner"
    /\ new_status \in OrderStatuses
    /\ \E o \in orders :
          /\ o.id = order_id /\ RestaurantById(o.restaurant_id).owner_id = u
          /\ orders' = (orders \ {o}) \cup {[o EXCEPT !.status = new_status]}
    /\ req' = [req EXCEPT ![r] =
                 Respond([Idle EXCEPT !.op = "update_order_status", !.user = u],
                         TRUE, MsgStatusUpdated)]
    /\ UNCHANGED <<restaurants, menu_items, cart, order_items, next_cart_id, next_order_id>>

\* mutant: any restaurant owner may set the status
update_order_status_any_owner(r, u, order_id, new_status) ==
    /\ req[r].pc = "idle"
    /\ Role[u] = "restaurant_owner"
    /\ new_status \in OrderStatuses
    /\ \E o \in orders :
          /\ o.id = order_id
          /\ orders' = (orders \ {o}) \cup {[o EXCEPT !.status = new_status, !.updated_at = now]}
    /\ req' = [req EXCEPT ![r] =
                 Respond([Idle EXCEPT !.op = "update_order_status", !.user = u],
                         TRUE, MsgStatusUpdated)]
    /\ UNCHANGED <<restaurants, menu_items, cart, order_items, next_cart_id, next_order_id>>

\* ------------------------------------------- update order status (restaurant)
update_order_status(r, u, order_id, new_status) ==
    /\ req[r].pc = "idle"
    /\ LET rq == [Idle EXCEPT !.op = "update_order_status", !.user = u]
       IN IF Role[u] # "restaurant_owner"
          THEN /\ req' = [req EXCEPT ![r] = Respond(rq, FALSE, Denial(u))]
               /\ orders' = orders
          ELSE IF ~ \E o \in orders : o.id = order_id
          THEN /\ req' = [req EXCEPT ![r] = Respond(rq, FALSE, MsgStatusError)]
               /\ orders' = orders
          ELSE LET order == CHOOSE o \in orders : o.id = order_id
               IN IF RestaurantById(order.restaurant_id).owner_id # u
                  THEN /\ req' = [req EXCEPT ![r] = Respond(rq, FALSE, MsgUnauthorized)]
                       /\ orders' = orders
                  ELSE IF new_status \notin OrderStatuses
                  THEN /\ req' = [req EXCEPT ![r] = Respond(rq, FALSE, MsgInvalidStatus)]
                       /\ orders' = orders
                  ELSE /\ orders' = (orders \ {order})
                                    \cup {[order EXCEPT !.status = new_status,
                                                         !.updated_at = now]}
                       /\ req' = [req EXCEPT ![r] = Respond(rq, TRUE, MsgStatusUpdated)]
    /\ UNCHANGED <<restaurants, menu_items, cart, order_items, next_cart_id, next_order_id>>

\* ------------------------------------------------ popularity of a menu item
\* func.date(Order.created_at): created_at is a datetime.utcnow()
UtcDate(t) == t \div 2

\* date.today(): the date of the server's local time
Today == (now + tz) \div 2

\* OrderItem joined with Order, filtered on menu_item_id and on
\* func.date(Order.created_at) == today
OrderItemsToday(menu_item_id) ==
    {l \in order_items :
        /\ l.menu_item_id = menu_item_id
        /\ \E o \in orders : o.id = l.order_id /\ UtcDate(o.created_at) = Today}

RECURSIVE SumQuantity(_)
\* func.sum(OrderItem.quantity) ... .scalar() or 0
SumQuantity(L) ==
    IF L = {} THEN 0
    ELSE LET l == CHOOSE x \in L : TRUE
         IN l.quantity + SumQuantity(L \ {l})

order_quantity_today(menu_item_id) == SumQuantity(OrderItemsToday(menu_item_id))

has_large_single_order_today(menu_item_id) ==
    \E l \in OrderItemsToday(menu_item_id) : l.quantity > 10

\* mutant: the thresholds are reached at 10
is_mostly_ordered_from_ten(menu_item_id) ==
    \/ order_quantity_today(menu_item_id) >= 10
    \/ \E l \in OrderItemsToday(menu_item_id) : l.quantity >= 10

is_mostly_ordered(menu_item_id) ==
    order_quantity_today(menu_item_id) > 10 \/ has_large_single_order_today(menu_item_id)

\* view_restaurant: the same two queries, written out in the view
view_restaurant_mostly_ordered(menu_item_id) ==
    LET total_quantity == SumQuantity(OrderItemsToday(menu_item_id))
        single_large_order == {l \in OrderItemsToday(menu_item_id) : l.quantity > 10}
    IN total_quantity > 10 \/ single_large_order # {}

\* datetime.combine(today, datetime.min.time()) and datetime.combine(today,
\* datetime.max.time()): the first and the last instant of the local date
start_of_day == Today * 2
end_of_day == Today * 2 + 1

\* OrderItem joined with Order, filtered on menu_item_id, on
\* Order.restaurant_id and on start_of_day <= Order.created_at <= end_of_day
OrderItemsInRange(restaurant_id, menu_item_id) ==
    {l \in order_items :
        /\ l.menu_item_id = menu_item_id
        /\ \E o \in orders : /\ o.id = l.order_id
                             /\ o.restaurant_id = restaurant_id
                             /\ o.created_at >= start_of_day
                             /\ o.created_at <= end_of_day}

\* func.coalesce(func.max(OrderItem.quantity), 0)
MaxQuantity(L) ==
    IF L = {} THEN 0
    ELSE CHOOSE q \in {l.quantity : l \in L} : \A l \in L : l.quantity <= q

\* mutant: the thresholds are reached at 10
restaurant_detail_mostly_ordered_from_ten(restaurant_id, menu_item_id) ==
    LET total_quantity == SumQuantity(OrderItemsInRange(restaurant_id, menu_item_id))
        max_single_order == MaxQuantity(OrderItemsInRange(restaurant_id, menu_item_id))
    IN total_quantity >= 10 \/ max_single_order >= 10

\* restaurant_detail, for an item of the restaurant shown
restaurant_detail_mostly_ordered(restaurant_id, menu_item_id) ==
    LET total_quantity == SumQuantity(OrderItemsInRange(restaurant_id, menu_item_id))
        max_single_order == MaxQuantity(OrderItemsInRange(restaurant_id, menu_item_id))
    IN total_quantity > 10 \/ max_single_order > 10

\* manage_menu_all, for an item of one of the owner's restaurants
manage_menu_all_mostly_ordered(restaurant_id, menu_item_id) ==
    LET total_quantity == SumQuantity(OrderItemsInRange(restaurant_id, menu_item_id))
        max_single_order == MaxQuantity(OrderItemsInRange(restaurant_id, menu_item_id))
    IN (total_quantity > 10) \/ (max_single_order > 10)

\* GET /api/restaurant/<id>/menu: the available items of a restaurant, each
\* with its is_mostly_ordered
get_menu(r, restaurant_id) ==
    /\ req[r].pc = "idle"
    /\ LET rq == [Idle EXCEPT !.op = "get_menu"]
       IN IF ~ \E x \in restaurants : x.id = restaurant_id
          THEN req' = [req EXCEPT ![r] = Respond(rq, FALSE, MsgMenuError)]
          ELSE req' = [req EXCEPT ![r] =
                         [Respond(rq, TRUE, "none") EXCEPT !.menu =
                             {[id |-> m.id, is_mostly_ordered |-> is_mostly_ordered(m.id)] :
                                m \in {x \in menu_items : /\ x.restaurant_id = restaurant_id
                                                          /\ x.is_available}}]]
    /\ UNCHANGED <<tables, next_cart_id, next_order_id>>

\* time passes
Tick ==
    /\ now < MaxClock
    /\ now' = now + 1
    /\ UNCHANGED <<tables, next_cart_id, next_order_id, req, received, shipped, tz, aux>>

\* the response is sent and the request's session is removed
Finish(r) ==
    /\ req[r].pc = "done"
    /\ req' = [req EXCEPT ![r] = Idle]
    /\ UNCHANGED <<tables, next_cart_id, next_order_id>>

\* notification_service = NotificationService(): nothing created, nothing stored;
\* no request counted; cache = Cache()
ServicesInit ==
    /\ notifications = <<>>
    /\ in_app_notifications = {}
    /\ next_notification_id = 1
    /\ notify_result = "none"
    /\ requests = [ip \in {} |-> <<>>]
    /\ limiter = [t \in Slots |-> [pc |-> "idle", client_ip |-> 0, current_time |-> 0]]
    /\ admitted = <<>>
    /\ arrivals = 0
    /\ cache_values = [k \in {} |-> "None"]
    /\ cache_expiry = [k \in {} |-> 0]
    /\ cache_result = "None"
    /\ last_set = [k \in {} |-> [value |-> "None", expires |-> FALSE, at |-> 0]]
    /\ cache_ops = 0

\* the default database, mysql+pymysql (InnoDB), enforces the foreign keys
AuxInit ==
    /\ ServicesInit
    /\ fk_enforced = TRUE

Init ==
    /\ restaurants = {[id |-> 1, owner_id |-> 3], [id |-> 2, owner_id |-> 4]}
    /\ menu_items = {[id |-> 1, restaurant_id |-> 1, price |-> 2, is_available |-> TRUE],
                     [id |-> 2, restaurant_id |-> 1, price |-> 5, is_available |-> TRUE],
                     [id |-> 3, restaurant_id |-> 2, price |-> 5, is_available |-> TRUE]}
    /\ cart = {}
    /\ orders = {}
    /\ order_items = {}
    /\ next_cart_id = 1
    /\ next_order_id = 1
    /\ req = [r \in Slots |-> Idle]
    /\ received = 0
    /\ shipped = {}
    /\ now = 2
    /\ tz = 0
    /\ AuxInit

\* history of a commit: which loaded cart row went into which new Order
ShippedBy(r) ==
    IF fk_enforced /\ ~ ReferentsExist(req[r]) THEN {} ELSE
    UNION {{[cart_id |-> req[r].cart_items[k].id, order_id |-> o.id] :
              k \in {j \in 1..Len(req[r].cart_items) :
                       req[r].cart_items[j].menu_item.restaurant_id = o.restaurant_id}} :
           o \in req[r].new_orders}

\* a request arrives and is given the first free slot
Receive(r) ==
    /\ \A s \in Slots : s < r => req[s].pc # "idle"
    /\ received < MaxRequests
    /\ received' = received + 1

\* the users whose requests are explored: a customer and the owner of restaurant 1
Callers == {1, 3}

\* ids a request can name: those of the rows and one that no row carries
CartIds == {c.id : c \in cart} \cup {next_cart_id}
OrderIds == {o.id : o \in orders} \cup {next_order_id}

Step(r) ==
    \/ /\ \E u \in Callers, mid \in MenuItemInputs, q \in AddQuantities :
             add_to_cart(r, u, mid, q)
       /\ Receive(r)
       /\ UNCHANGED <<shipped, now, tz, aux>>
    \/ add_to_cart_commit(r) /\ UNCHANGED <<received, shipped, now, tz, aux>>
    \/ /\ \E u \in Callers, cid \in CartIds, q \in UpdateQuantities : update_cart(r, u, cid, q)
       /\ Receive(r)
       /\ UNCHANGED <<shipped, now, tz, aux>>
    \/ /\ \E u \in Callers, cid \in CartIds : remove_from_cart(r, u, cid)
       /\ Receive(r)
       /\ UNCHANGED <<shipped, now, tz, aux>>
    \/ /\ \E u \in Callers : place_order(r, u)
       /\ Receive(r)
       /\ UNCHANGED <<shipped, now, tz, aux>>
    \/ place_order_create(r) /\ UNCHANGED <<received, shipped, now, tz, aux>>
    \/ place_order_commit(r) /\ shipped' = shipped \cup ShippedBy(r) /\ UNCHANGED <<received, now, tz, aux>>
    \/ place_order_fault(r) /\ UNCHANGED <<received, shipped, now, tz, aux>>
    \/ /\ \E u \in Callers, rid \in RestaurantIds, mid \in MenuItemIds, p \in Prices, a \in BOOLEAN :
             edit_menu_item(r, u, rid, mid, p, a)
       /\ Receive(r)
       /\ UNCHANGED <<shipped, now, tz, aux>>
    \/ /\ \E u \in Callers, oid \in OrderIds, st \in StatusInputs :
             update_order_status(r, u, oid, st)
       /\ Receive(r)
       /\ UNCHANGED <<shipped, now, tz, aux>>
    \/ Finish(r) /\ UNCHANGED <<received, shipped, now, tz, aux>>

\* a handler's return is its last statement: the response of a finished
\* request leaves before any other request takes a step
Turn(r) == req[r].pc = "done" \/ \A s \in Slots : req[s].pc # "done"

Next == \E r \in Slots : Turn(r) /\ Step(r)

Spec == Init /\ [][Next]_vars

\* requests served one at a time: a request runs to completion before the next starts
Alone(r) == \A s \in Slots \ {r} : req[s].pc = "idle"

SeqNext == \E r \in Slots : Alone(r) /\ Step(r)

SeqSpec == Init /\ [][SeqNext]_vars

\* the cart handlers under the requests of two customers
Customers == {1, 2}

CartStep(r) ==
    \/ /\ \E u \in Customers, mid \in {1, 3}, q \in AddQuantities : add_to_cart(r, u, mid, q)
       /\ Receive(r)
       /\ UNCHANGED <<shipped, now, tz, aux>>
    \/ add_to_cart_commit(r) /\ UNCHANGED <<received, shipped, now, tz, aux>>
    \/ /\ \E u \in Customers, cid \in CartIds, q \in UpdateQuantities : update_cart(r, u, cid, q)
       /\ Receive(r)
       /\ UNCHANGED <<shipped, now, tz, aux>>
    \/ /\ \E u \in Customers, cid \in CartIds : remove_from_cart(r, u, cid)
       /\ Receive(r)
       /\ UNCHANGED <<shipped, now, tz, aux>>
    \/ Finish(r) /\ UNCHANGED <<received, shipped, now, tz, aux>>

CartNext == \E r \in Slots : Turn(r) /\ CartStep(r)

CartSpec == Init /\ [][CartNext]_vars

\* ------------------------------------------------------- a day of orders
\* the database after a day of trading: customer 1 has placed `count` orders
\* of one unit of menu item 1 today, one order of `single` units today
\* (0: none) and one order of `old` units the day before (0: none)
SeedCounts == {0, 9, 10, 11, 12}
SeedSingles == {0, 10, 11}
SeedOlds == {0, 11}

Seeded(count, single, old) ==
    {[id |-> i, created_at |-> 2, quantity |-> 1] : i \in 1..count}
    \cup (IF single > 0 THEN {[id |-> count + 1, created_at |-> 2, quantity |-> single]} ELSE {})
    \cup (IF old > 0 THEN {[id |-> count + 2, created_at |-> 0, quantity |-> old]} ELSE {})

DayInit ==
    /\ restaurants = {[id |-> 1, owner_id |-> 3], [id |-> 2, owner_id |-> 4]}
    /\ menu_items = {[id |-> 1, restaurant_id |-> 1, price |-> 2, is_available |-> TRUE],
                     [id |-> 2, restaurant_id |-> 1, price |-> 5, is_available |-> TRUE],
                     [id |-> 3, restaurant_id |-> 2, price |-> 5, is_available |-> TRUE]}
    /\ cart = {}
    /\ \E count \in SeedCounts, single \in SeedSingles, old \in SeedOlds :
          /\ orders = {[id |-> x.id, order_number |-> OrderNumber(x.created_at, 0, 1, 100 + x.id),
                        customer_id |-> 1, restaurant_id |-> 1,
                        total_amount |-> 2 * x.quantity, status |-> "pending",
                        created_at |-> x.created_at, updated_at |-> x.created_at] :
                          x \in Seeded(count, single, old)}
          /\ order_items = {[order_id |-> x.id, line |-> 1, menu_item_id |-> 1,
                             quantity |-> x.quantity, price |-> 2] :
                               x \in Seeded(count, single, old)}
          /\ next_order_id = count + 3
    /\ next_cart_id = 1
    /\ req = [r \in Slots |-> Idle]
    /\ received = 0
    /\ shipped = {}
    /\ now = 2
    /\ tz \in TzOffsets
    /\ AuxInit

DayStep(r) ==
    \/ /\ \E q \in AddQuantities : add_to_cart(r, 1, 1, q)
       /\ Receive(r)
       /\ UNCHANGED <<shipped, now, tz, aux>>
    \/ add_to_cart_commit(r) /\ UNCHANGED <<received, shipped, now, tz, aux>>
    \/ place_order(r, 1) /\ Receive(r) /\ UNCHANGED <<shipped, now, tz, aux>>
    \/ place_order_create(r) /\ UNCHANGED <<received, shipped, now, tz, aux>>
    \/ place_order_commit(r) /\ shipped' = shipped \cup ShippedBy(r) /\ UNCHANGED <<received, now, tz, aux>>
    \/ place_order_fault(r) /\ UNCHANGED <<received, shipped, now, tz, aux>>
    \/ /\ \E rid \in {1, 3} : get_menu(r, rid)
       /\ Receive(r)
       /\ UNCHANGED <<shipped, now, tz, aux>>
    \/ Finish(r) /\ UNCHANGED <<received, shipped, now, tz, aux>>

\* requests are served one at a time, and the clock is watched between them
DayNext ==
    \/ \E r \in Slots : Alone(r) /\ DayStep(r)
    \/ (\A r \in Slots : req[r].pc = "idle") /\ Tick

DaySpec == DayInit /\ [][DayNext]_vars

\* ------------------------------------------------ the order status workflow
\* the database after customer 1 has placed an order at each restaurant
StatusInit ==
    /\ restaurants = {[id |-> 1, owner_id |-> 3], [id |-> 2, owner_id |-> 4]}
    /\ menu_items = {[id |-> 1, restaurant_id |-> 1, price |-> 2, is_available |-> TRUE],
                     [id |-> 2, restaurant_id |-> 1, price |-> 5, is_available |-> TRUE],
                     [id |-> 3, restaurant_id |-> 2, price |-> 5, is_available |-> TRUE]}
    /\ cart = {}
    /\ orders = {[id |-> 1, order_number |-> OrderNumber(2, 0, 1, 100), customer_id |-> 1,
                  restaurant_id |-> 1, total_amount |-> 2, status |-> "pending",
                  created_at |-> 2, updated_at |-> 2],
                 [id |-> 2, order_number |-> OrderNumber(2, 0, 1, 101), customer_id |-> 1,
                  restaurant_id |-> 2, total_amount |-> 5, status |-> "pending",
                  created_at |-> 2, updated_at |-> 2]}
    /\ order_items = {[order_id |-> 1, line |-> 1, menu_item_id |-> 1, quantity |-> 1, price |-> 2],
                      [order_id |-> 2, line |-> 1, menu_item_id |-> 3, quantity |-> 1, price |-> 5]}
    /\ next_cart_id = 3
    /\ next_order_id = 3
    /\ req = [r \in Slots |-> Idle]
    /\ received = 0
    /\ shipped = {[cart_id |-> 1, order_id |-> 1], [cart_id |-> 2, order_id |-> 2]}
    /\ now = 2
    /\ tz = 0
    /\ AuxInit

Owners == {3, 4}

StatusStep(r) ==
    \/ /\ \E u \in Owners, oid \in OrderIds, st \in StatusInputs :
             update_order_status(r, u, oid, st)
       /\ Receive(r)
       /\ UNCHANGED <<shipped, now, tz, aux>>
    \/ Finish(r) /\ UNCHANGED <<received, shipped, now, tz, aux>>

StatusNext ==
    \/ \E r \in Slots : Alone(r) /\ StatusStep(r)
    \/ (\A r \in Slots : req[r].pc = "idle") /\ Tick

StatusSpec == StatusInit /\ [][StatusNext]_vars

\* ------------------------------------------------------------ notifications
MaxNotifications == 2

\* what a caller can pass as notification_type; only the first two have a template
NotificationTypes == {"confirmed", "status_update", "delivered"}

\* mutant: an exception of the storage reaches the caller
send_order_notification_raising(order, notification_type, fault) ==
    /\ Len(notifications) < MaxNotifications
    /\ notification_type \in {"confirmed", "status_update"}
    /\ notifications' = Append(notifications,
                               [user_id |-> order.customer_id, order_id |-> order.id,
                                type |-> notification_type, sent |-> ~ fault])
    /\ in_app_notifications' = in_app_notifications
    /\ next_notification_id' = next_notification_id
    /\ notify_result' = IF fault THEN "raised" ELSE "returned"

\* send_order_notification(order, notification_type): the template, then
\* create_notification (the Notification joins the service's list), then
\* send_notification on the default channel, in-app.  _store_in_app_notification
\* adds and commits an InAppNotification inside its own try; when that raises
\* (fault) the exception is logged there, and send_notification goes on to
\* set notification.sent.  An unknown notification_type has no template and
\* nothing is created.
send_order_notification(order, notification_type, fault) ==
    /\ Len(notifications) < MaxNotifications
    /\ IF notification_type \notin {"confirmed", "status_update"}
       THEN UNCHANGED <<notifications, in_app_notifications, next_notification_id>>
       ELSE /\ notifications' = Append(notifications,
                                       [user_id |-> order.customer_id, order_id |-> order.id,
                                        type |-> notification_type, sent |-> TRUE])
            /\ IF fault
               THEN UNCHANGED <<in_app_notifications, next_notification_id>>
               ELSE /\ in_app_notifications' = in_app_notifications \cup
                          {[id |-> next_notification_id, user_id |-> order.customer_id,
                            notification_type |-> notification_type, order_id |-> order.id]}
                    /\ next_notification_id' = next_notification_id + 1
    /\ notify_result' = "returned"

\* the status workflow of restaurant 1 next to a caller of the notification helper
NotifyStep(r) ==
    \/ /\ \E st \in {"confirmed", "refunded"} : update_order_status(r, 3, 1, st)
       /\ Receive(r)
       /\ UNCHANGED <<shipped, now, tz, aux>>
    \/ Finish(r) /\ UNCHANGED <<received, shipped, now, tz, aux>>

NotifyNext ==
    \/ \E r \in Slots : Alone(r) /\ NotifyStep(r)
    \/ /\ \E o \in orders, t \in NotificationTypes, fault \in BOOLEAN :
             send_order_notification(o, t, fault)
       /\ UNCHANGED <<web, now, tz, limits, caches, fk_enforced>>

NotifySpec == StatusInit /\ [][NotifyNext]_vars

\* ------------------------------------------ the cart and who may touch it
\* requests of a visitor, of both customers, of an owner and of an admin
Visitors == {0, 1, 2, 3, 5}

AccessStep(r) ==
    \/ /\ \E u \in Visitors, mid \in {1, 3} : add_to_cart(r, u, mid, 1)
       /\ Receive(r)
       /\ UNCHANGED <<shipped, now, tz, aux>>
    \/ add_to_cart_commit(r) /\ UNCHANGED <<received, shipped, now, tz, aux>>
    \/ /\ \E u \in Visitors, cid \in CartIds : \E q \in UpdateQuantities : update_cart(r, u, cid, q)
       /\ Receive(r)
       /\ UNCHANGED <<shipped, now, tz, aux>>
    \/ /\ \E u \in Visitors, cid \in CartIds : remove_from_cart(r, u, cid)
       /\ Receive(r)
       /\ UNCHANGED <<shipped, now, tz, aux>>
    \/ /\ \E u \in Visitors : place_order(r, u)
       /\ Receive(r)
       /\ UNCHANGED <<shipped, now, tz, aux>>
    \/ place_order_create(r) /\ UNCHANGED <<received, shipped, now, tz, aux>>
    \/ place_order_commit(r) /\ shipped' = shipped \cup ShippedBy(r)
                             /\ UNCHANGED <<received, now, tz, aux>>
    \/ place_order_fault(r) /\ UNCHANGED <<received, shipped, now, tz, aux>>
    \/ Finish(r) /\ UNCHANGED <<received, shipped, now, tz, aux>>

AccessNext == \E r \in Slots : Turn(r) /\ AccessStep(r)

AccessSpec == Init /\ [][AccessNext]_vars

\* ------------------------------------------------------------- rate limiter
MaxArrivals == 4

\* the parameters of the decorator, and the addresses requests come from
max_requests == 2
window == 2
ClientIps == {1, 2}

\* decorated_function up to the check: the address and int(time.time()) are
\* read, the address gets its list, and the list is replaced by the times
\* younger than the window
rate_limit_clean(t, ip) ==
    /\ limiter[t].pc = "idle"
    /\ arrivals < MaxArrivals
    /\ arrivals' = arrivals + 1
    /\ LET old == IF ip \in DOMAIN requests THEN requests[ip] ELSE <<>>
           kept == SelectSeq(old, LAMBDA req_time : now - req_time < window)
       IN requests' = [i \in DOMAIN requests \cup {ip} |->
                         IF i = ip THEN kept ELSE requests[i]]
    /\ limiter' = [limiter EXCEPT ![t] = [pc |-> "check", client_ip |-> ip, current_time |-> now]]
    /\ admitted' = admitted

\* if len(rate_limit.requests[client_ip]) >= max_requests: return ..., 429
rate_limit_check(t) ==
    /\ limiter[t].pc = "check"
    /\ limiter' = [limiter EXCEPT ![t] =
                     IF Len(requests[limiter[t].client_ip]) >= max_requests
                     THEN [pc |-> "idle", client_ip |-> 0, current_time |-> 0]
                     ELSE [@ EXCEPT !.pc = "append"]]
    /\ UNCHANGED <<requests, admitted, arrivals>>

\* rate_limit.requests[client_ip].append(current_time); return f(*args, **kwargs)
rate_limit_append(t) ==
    /\ limiter[t].pc = "append"
    /\ requests' = [requests EXCEPT ![limiter[t].client_ip] = Append(@, limiter[t].current_time)]
    /\ admitted' = Append(admitted, [ip |-> limiter[t].client_ip, time |-> limiter[t].current_time])
    /\ limiter' = [limiter EXCEPT ![t] = [pc |-> "idle", client_ip |-> 0, current_time |-> 0]]
    /\ arrivals' = arrivals

\* the threads of the server run the decorator side by side
LimiterNext ==
    \/ /\ \E t \in Slots :
             \/ \E ip \in ClientIps : rate_limit_clean(t, ip)
             \/ rate_limit_check(t)
             \/ rate_limit_append(t)
       /\ UNCHANGED <<web, now, tz, notes, caches, fk_enforced>>
    \/ Tick

LimiterSpec == Init /\ [][LimiterNext]_vars

\* --------------------------------------------------------------------- cache
MaxCacheOps == 3

\* the decimal digits of a positive id, as str(id) writes them
RECURSIVE Digits(_)
Digits(n) ==
    LET digit == <<"0", "1", "2", "3", "4", "5", "6", "7", "8", "9">>
    IN IF n < 10 THEN <<digit[n + 1]>> ELSE Digits(n \div 10) \o <<digit[(n % 10) + 1]>>

\* f"{prefix}{id}": a key is the string of its prefix and of the id's digits
Key(prefix, id) == <<prefix>> \o Digits(id)

\* pattern in key: the pattern occurs in the key as a substring
Contains(pattern, key) ==
    \E i \in 1..Len(key) :
       /\ i + Len(pattern) - 1 <= Len(key)
       /\ SubSeq(key, i, i + Len(pattern) - 1) = pattern

\* restaurant ids of one and of two digits
CachedRestaurants == {1, 10}
RestaurantPrefixes == {"restaurant_", "menu_items_", "analytics_", "reviews_"}
\* the keys callers use: those of the restaurants and one of no restaurant
CacheKeys ==
    {Key("restaurant_", 1), Key("restaurant_", 10), Key("analytics_", 1), <<"health_check">>}
CacheInputs == {"a", "b"}
ExpirySeconds == {0, 1}

\* the time to live warm_cache gives a restaurant and a menu, in units of 300 s
RestaurantTtl == 2
MenuItemsTtl == 1

Drop(f, K) == [k \in DOMAIN f \ K |-> f[k]]
Put(f, k, v) == [j \in DOMAIN f \cup {k} |-> IF j = k THEN v ELSE f[j]]

CacheCall ==
    /\ cache_ops < MaxCacheOps
    /\ cache_ops' = cache_ops + 1

\* Cache.get
cache_get(key) ==
    /\ CacheCall
    /\ IF key \in DOMAIN cache_values
       THEN IF key \in DOMAIN cache_expiry /\ now > cache_expiry[key]
            THEN /\ cache_values' = Drop(cache_values, {key})
                 /\ cache_expiry' = Drop(cache_expiry, {key})
                 /\ cache_result' = "None"
            ELSE /\ cache_result' = cache_values[key]
                 /\ UNCHANGED <<cache_values, cache_expiry>>
       ELSE /\ cache_result' = "None"
            /\ UNCHANGED <<cache_values, cache_expiry>>
    /\ last_set' = last_set

\* mutant: a set without expiry leaves the expiry of an earlier set in place
cache_set_keeps_expiry(key, value, expiry_seconds) ==
    /\ CacheCall
    /\ cache_values' = Put(cache_values, key, value)
    /\ cache_expiry' = IF expiry_seconds > 0
                       THEN Put(cache_expiry, key, now + expiry_seconds)
                       ELSE cache_expiry
    /\ last_set' = Put(last_set, key, [value |-> value, expires |-> expiry_seconds > 0,
                                       at |-> now + expiry_seconds])
    /\ cache_result' = cache_result

\* Cache.set
cache_set(key, value, expiry_seconds) ==
    /\ CacheCall
    /\ cache_values' = Put(cache_values, key, value)
    /\ cache_expiry' = IF expiry_seconds > 0
                       THEN Put(cache_expiry, key, now + expiry_seconds)
                       ELSE Drop(cache_expiry, {key})
    /\ last_set' = Put(last_set, key, [value |-> value, expires |-> expiry_seconds > 0,
                                       at |-> now + expiry_seconds])
    /\ cache_result' = cache_result

\* Cache.delete
cache_delete(key) ==
    /\ CacheCall
    /\ cache_values' = Drop(cache_values, {key})
    /\ cache_expiry' = Drop(cache_expiry, {key})
    /\ last_set' = Drop(last_set, {key})
    /\ cache_result' = cache_result

\* Cache.clear
cache_clear ==
    /\ CacheCall
    /\ cache_values' = Drop(cache_values, DOMAIN cache_values)
    /\ cache_expiry' = Drop(cache_expiry, DOMAIN cache_expiry)
    /\ last_set' = Drop(last_set, DOMAIN last_set)
    /\ cache_result' = cache_result

\* warm_cache: every restaurant and its available menu items are cached
warm_cache ==
    /\ CacheCall
    /\ LET rkeys == {Key("restaurant_", x.id) : x \in restaurants}
           mkeys == {Key("menu_items_", x.id) : x \in restaurants}
       IN /\ cache_values' =
               [k \in DOMAIN cache_values \cup rkeys \cup mkeys |->
                  IF k \in rkeys \cup mkeys THEN "a" ELSE cache_values[k]]
          /\ cache_expiry' =
               [k \in DOMAIN cache_expiry \cup rkeys \cup mkeys |->
                  IF k \in rkeys THEN now + RestaurantTtl
                  ELSE IF k \in mkeys THEN now + MenuItemsTtl ELSE cache_expiry[k]]
          /\ last_set' =
               [k \in DOMAIN last_set \cup rkeys \cup mkeys |->
                  IF k \in rkeys
                  THEN [value |-> "a", expires |-> TRUE, at |-> now + RestaurantTtl]
                  ELSE IF k \in mkeys
                  THEN [value |-> "a", expires |-> TRUE, at |-> now + MenuItemsTtl]
                  ELSE last_set[k]]
    /\ cache_result' = cache_result

\* the keys invalidate_cache(pattern) deletes
Invalidated(pattern, keys) == {k \in keys : Contains(pattern, k)}

\* clear_restaurant_cache: invalidate_cache for each of the four patterns
clear_restaurant_cache(restaurant_id) ==
    /\ CacheCall
    /\ LET gone == UNION {Invalidated(Key(p, restaurant_id), DOMAIN cache_values) :
                            p \in RestaurantPrefixes}
       IN /\ cache_values' = Drop(cache_values, gone)
          /\ cache_expiry' = Drop(cache_expiry, gone)
          /\ last_set' = Drop(last_set, gone)
    /\ cache_result' = cache_result

\* the database after ten restaurants were registered and eight deleted
CacheInit ==
    /\ restaurants = {[id |-> 1, owner_id |-> 3], [id |-> 10, owner_id |-> 4]}
    /\ menu_items = {[id |-> 1, restaurant_id |-> 1, price |-> 2, is_available |-> TRUE],
                     [id |-> 3, restaurant_id |-> 10, price |-> 5, is_available |-> TRUE]}
    /\ cart = {}
    /\ orders = {}
    /\ order_items = {}
    /\ next_cart_id = 1
    /\ next_order_id = 1
    /\ req = [r \in Slots |-> Idle]
    /\ received = 0
    /\ shipped = {}
    /\ now = 2
    /\ tz = 0
    /\ AuxInit

CacheNext ==
    \/ /\ \/ \E k \in CacheKeys : cache_get(k)
          \/ \E k \in CacheKeys, v \in CacheInputs, e \in ExpirySeconds : cache_set(k, v, e)
          \/ \E k \in CacheKeys : cache_delete(k)
          \/ cache_clear
          \/ warm_cache
          \/ \E rid \in CachedRestaurants : clear_restaurant_cache(rid)
       /\ UNCHANGED <<web, now, tz, notes, limits, fk_enforced>>
    \/ Tick

CacheSpec == CacheInit /\ [][CacheNext]_vars

\* ------------------------------------- deleting menu items and restaurants
\* delete_menu_item up to db.session.delete(menu_item): both get_or_404 (a
\* NotFound is caught by the handler's except), the owner check, the count of
\* the item's OrderItems
delete_menu_item(r, u, restaurant_id, item_id) ==
    /\ req[r].pc = "idle"
    /\ LET rq == [Idle EXCEPT !.op = "delete_menu_item", !.user = u,
                              !.restaurant_id = restaurant_id, !.menu_item_id = item_id]
       IN IF Role[u] # "restaurant_owner"
          THEN req' = [req EXCEPT ![r] = Respond(rq, FALSE, Denial(u))]
          ELSE IF \/ ~ \E x \in restaurants : x.id = restaurant_id
                  \/ ~ \E m \in menu_items : m.id = item_id
          THEN req' = [req EXCEPT ![r] = Respond(rq, FALSE, MsgDeleteItemError)]
          ELSE IF \/ RestaurantById(restaurant_id).owner_id # u
                  \/ MenuItemById(item_id).restaurant_id # restaurant_id
          THEN req' = [req EXCEPT ![r] = Respond(rq, FALSE, MsgUnauthorizedAccess)]
          ELSE IF \E l \in order_items : l.menu_item_id = item_id
          THEN req' = [req EXCEPT ![r] = Respond(rq, FALSE, MsgItemInOrders)]
          ELSE req' = [req EXCEPT ![r] =
                         [rq EXCEPT !.pc = "delete_flush", !.doomed = {item_id}]]
    /\ UNCHANGED <<tables, next_cart_id, next_order_id>>

\* delete_restaurant up to db.session.delete(restaurant): get_or_404, the
\* owner check, the count of the restaurant's Orders, the query of its menu
\* items and db.session.delete of each
delete_restaurant(r, u, restaurant_id) ==
    /\ req[r].pc = "idle"
    /\ LET rq == [Idle EXCEPT !.op = "delete_restaurant", !.user = u,
                              !.restaurant_id = restaurant_id]
       IN IF Role[u] # "restaurant_owner"
          THEN req' = [req EXCEPT ![r] = Respond(rq, FALSE, Denial(u))]
          ELSE IF ~ \E x \in restaurants : x.id = restaurant_id
          THEN req' = [req EXCEPT ![r] = Respond(rq, FALSE, MsgDeleteRestaurantError)]
          ELSE IF RestaurantById(restaurant_id).owner_id # u
          THEN req' = [req EXCEPT ![r] = Respond(rq, FALSE, MsgUnauthorizedAccess)]
          ELSE IF \E o \in orders : o.restaurant_id = restaurant_id
          THEN req' = [req EXCEPT ![r] = Respond(rq, FALSE, MsgRestaurantHasOrders)]
          ELSE req' = [req EXCEPT ![r] =
                         [rq EXCEPT !.pc = "delete_flush",
                                    !.doomed = {m.id : m \in {x \in menu_items :
                                                               x.restaurant_id = restaurant_id}}]]
    /\ UNCHANGED <<tables, next_cart_id, next_order_id>>

\* the rows that reference what the session is about to delete: the cart rows
\* and order items of a deleted menu item, the orders of a deleted restaurant
Dependents(rq) ==
    \/ \E c \in cart : c.menu_item_id \in rq.doomed
    \/ \E l \in order_items : l.menu_item_id \in rq.doomed
    \/ rq.op = "delete_restaurant" /\ \E o \in orders : o.restaurant_id = rq.restaurant_id

DeleteError(rq) ==
    IF rq.op = "delete_restaurant" THEN MsgDeleteRestaurantError ELSE MsgDeleteItemError

\* db.session.commit(), the flush before the DELETE statements: the unit of
\* work loads MenuItem.cart_items and MenuItem.order_items (Restaurant.orders)
\* of each deleted object to set their foreign key to NULL; the columns are
\* NOT NULL, so one such row makes the flush raise, and the handler's except
\* answers with the error
delete_flush(r) ==
    /\ req[r].pc = "delete_flush"
    /\ req' = [req EXCEPT ![r] =
                 IF Dependents(req[r])
                 THEN Respond(req[r], FALSE, DeleteError(req[r]))
                 ELSE [req[r] EXCEPT !.pc = "delete_commit"]]
    /\ UNCHANGED <<tables, next_cart_id, next_order_id>>

\* db.session.commit(), the DELETE statements and the COMMIT.  Where foreign
\* keys are enforced, the DELETE of a restaurant waits for the transactions
\* that have inserted an Order for it, and a DELETE of a row that a cart row,
\* an order item or an order references raises IntegrityError; where they are
\* not, the row is deleted.
delete_commit(r) ==
    /\ req[r].pc = "delete_commit"
    /\ fk_enforced =>
          \A s \in Slots \ {r} : \A o \in req[s].new_orders :
             ~ (req[r].op = "delete_restaurant" /\ o.restaurant_id = req[r].restaurant_id)
    /\ IF fk_enforced /\ Dependents(req[r])
       THEN /\ req' = [req EXCEPT ![r] = Respond(req[r], FALSE, DeleteError(req[r]))]
            /\ UNCHANGED <<restaurants, menu_items>>
       ELSE /\ menu_items' = {m \in menu_items : m.id \notin req[r].doomed}
            /\ restaurants' = IF req[r].op = "delete_restaurant"
                              THEN {x \in restaurants : x.id # req[r].restaurant_id}
                              ELSE restaurants
            /\ req' = [req EXCEPT ![r] =
                         Respond(req[r], TRUE,
                                 IF req[r].op = "delete_restaurant"
                                 THEN MsgRestaurantDeleted ELSE MsgItemDeleted)]
    /\ UNCHANGED <<cart, orders, order_items, next_cart_id, next_order_id>>

\* the application on a database that enforces foreign keys (MySQL/InnoDB,
\* the default) or on one that does not (SQLite, as in TestingConfig)
DeleteInit ==
    /\ restaurants = {[id |-> 1, owner_id |-> 3], [id |-> 2, owner_id |-> 4]}
    /\ menu_items = {[id |-> 1, restaurant_id |-> 1, price |-> 2, is_available |-> TRUE],
                     [id |-> 3, restaurant_id |-> 2, price |-> 5, is_available |-> TRUE]}
    /\ cart = {}
    /\ orders = {}
    /\ order_items = {}
    /\ next_cart_id = 1
    /\ next_order_id = 1
    /\ req = [r \in Slots |-> Idle]
    /\ received = 0
    /\ shipped = {}
    /\ now = 2
    /\ tz = 0
    /\ ServicesInit
    /\ fk_enforced \in BOOLEAN

DeleteStep(r) ==
    \/ /\ add_to_cart(r, 1, 1, 1)
       /\ Receive(r)
       /\ UNCHANGED <<shipped, now, tz, aux>>
    \/ add_to_cart_commit(r) /\ UNCHANGED <<received, shipped, now, tz, aux>>
    \/ place_order(r, 1) /\ Receive(r) /\ UNCHANGED <<shipped, now, tz, aux>>
    \/ place_order_create(r) /\ UNCHANGED <<received, shipped, now, tz, aux>>
    \/ place_order_commit(r) /\ shipped' = shipped \cup ShippedBy(r)
                             /\ UNCHANGED <<received, now, tz, aux>>
    \/ place_order_fault(r) /\ UNCHANGED <<received, shipped, now, tz, aux>>
    \/ /\ \E u \in Owners, mid \in {1, 3} : delete_menu_item(r, u, 1, mid)
       /\ Receive(r)
       /\ UNCHANGED <<shipped, now, tz, aux>>
    \/ /\ \E u \in Owners : delete_restaurant(r, u, 1)
       /\ Receive(r)
       /\ UNCHANGED <<shipped, now, tz, aux>>
    \/ delete_flush(r) /\ UNCHANGED <<received, shipped, now, tz, aux>>
    \/ delete_commit(r) /\ UNCHANGED <<received, shipped, now, tz, aux>>
    \/ Finish(r) /\ UNCHANGED <<received, shipped, now, tz, aux>>

DeleteNext == \E r \in Slots : Turn(r) /\ DeleteStep(r)

DeleteSpec == DeleteInit /\ [][DeleteNext]_vars

\* ------------------------------------- the popularity shown on each page
\* a day of trading as in DayInit, close to the threshold, with orders to
\* come for items of both restaurants
PopularCounts == {9, 10}
PopularSingles == {0, 11}

PopularInit ==
    /\ restaurants = {[id |-> 1, owner_id |-> 3], [id |-> 2, owner_id |-> 4]}
    /\ menu_items = {[id |-> 1, restaurant_id |-> 1, price |-> 2, is_available |-> TRUE],
                     [id |-> 2, restaurant_id |-> 1, price |-> 5, is_available |-> TRUE],
                     [id |-> 3, restaurant_id |-> 2, price |-> 5, is_available |-> TRUE]}
    /\ cart = {}
    /\ \E count \in PopularCounts, single \in PopularSingles, old \in SeedOlds :
          /\ orders = {[id |-> x.id, order_number |-> OrderNumber(x.created_at, 0, 1, 100 + x.id),
                        customer_id |-> 1, restaurant_id |-> 1,
                        total_amount |-> 2 * x.quantity, status |-> "pending",
                        created_at |-> x.created_at, updated_at |-> x.created_at] :
                          x \in Seeded(count, single, old)}
          /\ order_items = {[order_id |-> x.id, line |-> 1, menu_item_id |-> 1,
                             quantity |-> x.quantity, price |-> 2] :
                               x \in Seeded(count, single, old)}
          /\ next_order_id = count + 3
    /\ next_cart_id = 1
    /\ req = [r \in Slots |-> Idle]
    /\ received = 0
    /\ shipped = {}
    /\ now = 2
    /\ tz \in TzOffsets
    /\ AuxInit

PopularStep(r) ==
    \/ /\ \E mid \in {1, 3} : add_to_cart(r, 1, mid, 1)
       /\ Receive(r)
       /\ UNCHANGED <<shipped, now, tz, aux>>
    \/ add_to_cart_commit(r) /\ UNCHANGED <<received, shipped, now, tz, aux>>
    \/ place_order(r, 1) /\ Receive(r) /\ UNCHANGED <<shipped, now, tz, aux>>
    \/ place_order_create(r) /\ UNCHANGED <<received, shipped, now, tz, aux>>
    \/ place_order_commit(r) /\ shipped' = shipped \cup ShippedBy(r)
                             /\ UNCHANGED <<received, now, tz, aux>>
    \/ Finish(r) /\ UNCHANGED <<received, shipped, now, tz, aux>>

PopularNext ==
    \/ \E r \in Slots : Alone(r) /\ PopularStep(r)
    \/ (\A r \in Slots : req[r].pc = "idle") /\ Tick

PopularSpec == PopularInit /\ [][PopularNext]_vars

\* ========================================================== properties
\* the step a handler takes when it returns with success / with failure
Succeeds(r, pc) == req[r].pc = pc /\ req'[r].pc = "done" /\ req'[r].success
Fails(r, pc) == req[r].pc = pc /\ req'[r].pc = "done" /\ ~ req'[r].success

RECURSIVE SumLines(_)
SumLines(L) ==
    IF L = {} THEN 0
    ELSE LET l == CHOOSE x \in L : TRUE
         IN l.price * l.quantity + SumLines(L \ {l})

LinesOf(o) == {l \in order_items : l.order_id = o.id}
LoadedRestaurants(rq) ==
    {rq.cart_items[k].menu_item.restaurant_id : k \in 1..Len(rq.cart_items)}

\* C1: a place_order that fails after some partitions were created leaves no
\* Order and no OrderItem of that call visible and leaves the cart as it was.
C1_FailedPlacementLeavesNothing ==
    [][\A r \in Slots :
          Fails(r, "place_create") =>
             /\ orders' = orders
             /\ order_items' = order_items
             /\ cart' = cart
             /\ \A o \in req[r].new_orders : ~ \E p \in orders' : p.id = o.id
             /\ \A l \in req[r].new_order_items :
                   ~ \E m \in order_items' : m.order_id = l.order_id]_vars

\* a placement over a two-restaurant cart failed after its first Order was flushed
C1_Witness ==
    \E r \in Slots :
       /\ req[r].pc = "done" /\ req[r].op = "place_order"
       /\ req[r].message = MsgPlaceError
       /\ orders = {} /\ next_order_id = 2
       /\ \E c, d \in cart :
             /\ c.user_id = req[r].user /\ d.user_id = req[r].user
             /\ MenuItemById(c.menu_item_id).restaurant_id
                  # MenuItemById(d.menu_item_id).restaurant_id

\* C2: a successful place_order over loaded cart rows spanning k restaurants
\* creates exactly k Orders, one per restaurant, each holding only items of its
\* restaurant; every loaded row yields exactly one OrderItem with its quantity;
\* the user's cart is empty afterwards.
C2_OneOrderPerRestaurant ==
    [][\A r \in Slots :
          Succeeds(r, "place_create") =>
             LET rq == req[r]
                 created == orders' \ orders
                 lines == order_items' \ order_items
                 rowsOf(rid) == {k \in 1..Len(rq.cart_items) :
                                   rq.cart_items[k].menu_item.restaurant_id = rid}
             IN /\ Cardinality(created) = Cardinality(LoadedRestaurants(rq))
                /\ {o.restaurant_id : o \in created} = LoadedRestaurants(rq)
                /\ \A o \in created : o.customer_id = rq.user
                /\ \A l \in lines :
                      \E o \in created :
                         /\ o.id = l.order_id
                         /\ MenuItemById(l.menu_item_id).restaurant_id = o.restaurant_id
                /\ Cardinality(lines) = Len(rq.cart_items)
                /\ \A o \in created :
                      \A k \in rowsOf(o.restaurant_id) :
                         Cardinality({l \in lines :
                                        /\ l.order_id = o.id
                                        /\ l.menu_item_id = rq.cart_items[k].menu_item_id
                                        /\ l.quantity = rq.cart_items[k].quantity})
                           = Cardinality({j \in rowsOf(o.restaurant_id) :
                                        /\ rq.cart_items[j].menu_item_id
                                             = rq.cart_items[k].menu_item_id
                                        /\ rq.cart_items[j].quantity
                                             = rq.cart_items[k].quantity})
                /\ ~ \E c \in cart' : c.user_id = rq.user]_vars

\* a placement succeeded and left two Orders of one customer for two restaurants
C2_Witness ==
    \E r \in Slots :
       /\ req[r].pc = "done" /\ req[r].op = "place_order" /\ req[r].success
       /\ \E o, p \in orders :
             /\ o.restaurant_id # p.restaurant_id
             /\ o.customer_id = req[r].user /\ p.customer_id = req[r].user
       /\ ~ \E c \in cart : c.user_id = req[r].user

\* C3: every Order's total_amount is the sum of price * quantity over its OrderItems.
C3_TotalIsSumOfLines ==
    \A o \in orders : o.total_amount = SumLines(LinesOf(o))

\* an Order with a line of quantity 2 whose menu item has since changed its price
C3_Witness ==
    \E o \in orders :
       \E l \in LinesOf(o) :
          /\ l.quantity = 2
          /\ l.price # MenuItemById(l.menu_item_id).price
          /\ o.total_amount # 0

\* C4: no step changes the price or quantity of an existing OrderItem or the
\* total_amount of an existing Order; only place_order's commit adds any.
C4_OrderLinesFrozen ==
    [][/\ \A o \in orders :
             \E p \in orders' : p.id = o.id /\ p.total_amount = o.total_amount
       /\ \A l \in order_items : l \in order_items'
       /\ (order_items' # order_items \/ {o.id : o \in orders'} # {o.id : o \in orders})
             => \E r \in Slots : Succeeds(r, "place_create")]_vars

\* edit_menu_item has just changed the price of an item that an OrderItem references
C4_Witness ==
    \E r \in Slots :
       /\ req[r].pc = "done" /\ req[r].op = "edit_menu_item" /\ req[r].success
       /\ \E l \in order_items : l.price # MenuItemById(l.menu_item_id).price

\* C5: a successful place_order deletes only cart rows it loaded and turned
\* into OrderItems: no cart row is deleted without being in an Order of the call
\* (stated for carts of valid quantities).
C5_ClearsOnlyWhatItLoaded ==
    [][\A r \in Slots :
          (Succeeds(r, "place_create") /\ \A c \in cart : c.quantity >= 1) =>
             \A c \in cart \ cart' :
                \E k \in 1..Len(req[r].cart_items) : req[r].cart_items[k].id = c.id]_vars

\* C6: a cart row is shipped by one place_order call only: it becomes an
\* OrderItem of at most one Order (stated for orders of valid quantities).
C6_CartRowShippedOnce ==
    (\A l \in order_items : l.quantity >= 1) =>
       \A a, b \in shipped : a.cart_id = b.cart_id => a.order_id = b.order_id

\* C7: there is at most one Cart row per (user_id, menu_item_id) (stated for
\* carts of valid quantities).
C7_OneRowPerUserAndItem ==
    (\A c \in cart : c.quantity >= 1) =>
       \A c, d \in cart :
          (c.user_id = d.user_id /\ c.menu_item_id = d.menu_item_id) => c = d

\* C8: add-to-cart of (user, item, q) adds q to the quantity of the user's row
\* for that item if there is one, creates a row of quantity q otherwise, and
\* changes no other cart row (requests served one after the other).
C8_AddIncrementsOrCreates ==
    [][\A r \in Slots :
          (req[r].pc = "add_commit" /\ req'[r].pc = "done") =>
             LET u == req[r].user
                 mid == req[r].menu_item_id
                 q == req[r].quantity
                 matches == {c \in cart : c.user_id = u /\ c.menu_item_id = mid}
             IN /\ req'[r].success
                /\ IF matches # {}
                   THEN \E c \in matches :
                           /\ matches = {c}
                           /\ cart' = (cart \ {c}) \cup {[c EXCEPT !.quantity = c.quantity + q]}
                   ELSE \E n \in cart' :
                           /\ cart' = cart \cup {n}
                           /\ \A c \in cart : c.id # n.id
                           /\ n.user_id = u /\ n.menu_item_id = mid /\ n.quantity = q]_vars

\* two adds of quantity 2 to an empty cart left one row of quantity 4
C8_Witness ==
    \E r \in Slots :
       /\ req[r].pc = "done" /\ req[r].op = "add_to_cart" /\ req[r].success
       /\ received = 2
       /\ \E c \in cart : cart = {c} /\ c.quantity = 4 /\ c.user_id = req[r].user

\* C9: every Cart row and every OrderItem has quantity >= 1.
C9_QuantityAtLeastOne ==
    /\ \A c \in cart : c.quantity >= 1
    /\ \A l \in order_items : l.quantity >= 1

\* C10: add-to-cart goes on to write the cart only for a menu item that exists
\* and is available; for any other it fails and leaves the cart unchanged
\* (stated for requests of valid quantity).
C10_AddValidatesMenuItem ==
    [][\A r \in Slots :
          /\ (req[r].pc = "idle" /\ req'[r].pc = "add_commit" /\ req'[r].quantity >= 1) =>
                \E m \in menu_items : m.id = req'[r].menu_item_id /\ m.is_available
          /\ (req[r].pc = "add_commit" /\ ~ req[r].is_available /\ req[r].quantity >= 1) =>
                (cart' = cart /\ (req'[r].pc = "done" => ~ req'[r].success))]_vars

\* C11: update-cart on a cart row of the caller deletes the row when the
\* quantity is <= 0 and sets its quantity to exactly the given value otherwise,
\* so that the same update applied again changes nothing; the id of a deleted
\* row is never given to a later row.
C11_UpdateSetsOrDeletes ==
    [][/\ \A r \in Slots, u \in Users, cid \in CartIds, q \in UpdateQuantities :
             (/\ req'[r].op = "update_cart"
              /\ Role[u] = "customer"
              /\ \E c \in cart : c.id = cid /\ c.user_id = u
              /\ update_cart(r, u, cid, q)) =>
                LET c == CHOOSE x \in cart : x.id = cid
                    d == [c EXCEPT !.quantity = q]
                IN /\ req'[r].pc = "done" /\ req'[r].success
                   /\ IF q <= 0
                      THEN cart' = cart \ {c} /\ \A x \in cart' : x.id # cid
                      ELSE /\ cart' = (cart \ {c}) \cup {d}
                           /\ (cart' \ {d}) \cup {[d EXCEPT !.quantity = q]} = cart'
       /\ next_cart_id' >= next_cart_id
       /\ \A x \in cart : x.id < next_cart_id
       /\ \A x \in cart' : (\A y \in cart : y.id # x.id) => x.id >= next_cart_id]_vars

\* update-cart has just set a row that held another quantity to quantity 3
C11_Witness ==
    \E r \in Slots :
       /\ req[r].pc = "done" /\ req[r].op = "update_cart" /\ req[r].success
       /\ received = 2
       /\ \E c \in cart : c.user_id = req[r].user /\ c.quantity = 3

\* C12: an update-cart or remove-from-cart request of a customer that names a
\* cart row of another user fails with the Unauthorized result and changes no
\* cart row.
C12_ForeignRowUnauthorized ==
    [][\A r \in Slots, u \in Users, cid \in CartIds :
          (/\ req[r].pc = "idle" /\ req'[r].pc = "done"
           /\ Role[u] = "customer"
           /\ \E c \in cart : c.id = cid /\ c.user_id # u) =>
             /\ \A q \in UpdateQuantities :
                   update_cart(r, u, cid, q) =>
                      /\ req'[r].pc = "done" /\ ~ req'[r].success
                      /\ req'[r].message = MsgUnauthorized
                      /\ cart' = cart
             /\ remove_from_cart(r, u, cid) =>
                   /\ req'[r].pc = "done" /\ ~ req'[r].success
                   /\ req'[r].message = MsgUnauthorizedAccess
                   /\ cart' = cart]_vars

\* a customer's remove-from-cart of another customer's row was refused
C12_Witness ==
    \E r \in Slots :
       /\ req[r].pc = "done" /\ req[r].op = "remove_from_cart"
       /\ req[r].message = MsgUnauthorizedAccess
       /\ \E c \in cart : c.user_id # req[r].user /\ c.quantity >= 1

\* the message of a response
Messages ==
    {MsgDenied, MsgAdded, MsgAddError, MsgUnauthorized, MsgUnauthorizedAccess, MsgCartUpdated,
     MsgUpdateError, MsgRemoved, MsgRemoveError, MsgCartEmpty, MsgOrderPlaced, MsgPlaceError,
     MsgStatusUpdated, MsgInvalidStatus, MsgStatusError, MsgMenuUpdated, MsgNotFound}

\* C13: update-cart answers a customer the same for a cart id that names
\* another user's row as for a cart id that names no row.
C13_NoExistenceLeak ==
    \A r \in Slots, u \in Customers, q \in UpdateQuantities :
       \A c \in cart :
          (req[r].pc = "idle" /\ c.user_id # u /\ c.quantity >= 1) =>
             \A ok \in BOOLEAN, m \in Messages :
                (ENABLED (/\ update_cart(r, u, c.id, q)
                          /\ req'[r].success = ok /\ req'[r].message = m))
                <=> (ENABLED (/\ update_cart(r, u, next_cart_id, q)
                              /\ req'[r].success = ok /\ req'[r].message = m))

\* C14: place_order of a customer who has no cart row answers with the
\* empty-cart failure at once and changes no table and no id counter.
C14_EmptyCartRefused ==
    [][\A r \in Slots, u \in Users :
          (/\ req[r].pc = "idle" /\ req'[r].op = "place_order"
           /\ Role[u] = "customer"
           /\ ~ \E c \in cart : c.user_id = u
           /\ place_order(r, u)) =>
             /\ req'[r].pc = "done" /\ ~ req'[r].success
             /\ req'[r].message = MsgCartEmpty
             /\ UNCHANGED <<tables, next_cart_id, next_order_id>>]_vars

\* place_order was refused for an empty cart after the customer had emptied it
C14_Witness ==
    \E r \in Slots :
       /\ req[r].pc = "done" /\ req[r].op = "place_order"
       /\ req[r].message = MsgCartEmpty
       /\ next_cart_id > 1
       /\ ~ \E c \in cart : c.user_id = req[r].user

\* C15: no two Orders carry the same order_number, and the creation of the
\* Order of a partition never fails because the generated order number is
\* taken (stated for carts of valid quantities).
C15_OrderNumbersNeverCollide ==
    /\ [](\A o, p \in orders : o.order_number = p.order_number => o.id = p.id)
    /\ [][\A r \in Slots :
             (/\ req[r].pc = "place_create"
              /\ \A k \in 1..Len(req[r].cart_items) : req[r].cart_items[k].quantity >= 1
              /\ place_order_create(r)) => req'[r].pc # "done"]_vars

\* the OrderItems of a menu item in the Orders whose created_at is on a day
LinesOn(day, mid) ==
    {l \in order_items :
        /\ l.menu_item_id = mid
        /\ UtcDate((CHOOSE o \in orders : o.id = l.order_id).created_at) = day}

RECURSIVE WeightedCount(_, _)
\* sum of the quantities of L, counted quantity by quantity
WeightedCount(L, Q) ==
    IF Q = {} THEN 0
    ELSE LET q == CHOOSE x \in Q : TRUE
         IN q * Cardinality({l \in L : l.quantity = q}) + WeightedCount(L, Q \ {q})

DayTotal(day, mid) ==
    WeightedCount(LinesOn(day, mid), {l.quantity : l \in LinesOn(day, mid)})

C17_OneDayReference ==
    \A l \in order_items :
       l.quantity >= 1 =>
          LET o == CHOOSE x \in orders : x.id = l.order_id
          IN (l \in OrderItemsToday(l.menu_item_id)) <=> ((o.created_at + tz) \div 2 = Today)

\* C18: the status of an Order that is delivered or cancelled is never changed.
C18_TerminalStatuses ==
    [][\A o \in orders :
          o.status \in {"delivered", "cancelled"} =>
             \A p \in orders' : p.id = o.id => p.status = o.status]_vars

\* C19: update_order_status by the owner of the Order's restaurant sets status
\* to the requested value and updated_at to the time of the request whenever
\* the value is one of the six statuses, whatever the status was; any other
\* value is answered Invalid status and changes nothing.
C19_StatusSetUnconditionally ==
    [][\A r \in Slots, u \in Users, st \in StatusInputs :
          \A o \in orders :
             (/\ req[r].pc = "idle" /\ req'[r].op = "update_order_status"
              /\ Role[u] = "restaurant_owner"
              /\ RestaurantById(o.restaurant_id).owner_id = u
              /\ update_order_status(r, u, o.id, st)) =>
                IF st \in {"pending", "confirmed", "preparing", "ready", "delivered", "cancelled"}
                THEN /\ req'[r].success /\ req'[r].message = MsgStatusUpdated
                     /\ orders' = (orders \ {o})
                                   \cup {[o EXCEPT !.status = st, !.updated_at = now]}
                ELSE /\ ~ req'[r].success /\ req'[r].message = MsgInvalidStatus
                     /\ orders' = orders]_vars

\* an Order that had left pending was set back to pending at a later time
C19_Witness ==
    \E r \in Slots :
       /\ req[r].pc = "done" /\ req[r].op = "update_order_status" /\ req[r].success
       /\ received = 2
       /\ \E o \in orders :
             /\ o.status = "pending" /\ o.updated_at > o.created_at /\ o.updated_at = now
             /\ RestaurantById(o.restaurant_id).owner_id = req[r].user

\* C20: update_order_status of a restaurant owner on an Order of another
\* owner's restaurant is answered Unauthorized and changes no Order; and the
\* status of an Order changes only in a successful update_order_status step of
\* the owner of its restaurant.
C20_OnlyOwnerSetsStatus ==
    [][/\ \A r \in Slots, u \in Users, st \in StatusInputs :
             \A o \in orders :
                (/\ req[r].pc = "idle" /\ req'[r].op = "update_order_status"
                 /\ Role[u] = "restaurant_owner"
                 /\ RestaurantById(o.restaurant_id).owner_id # u
                 /\ update_order_status(r, u, o.id, st)) =>
                   /\ ~ req'[r].success /\ req'[r].message = MsgUnauthorized
                   /\ orders' = orders
       /\ \A o \in orders :
             \A p \in orders' :
                (p.id = o.id /\ p.status # o.status) =>
                   \E r \in Slots :
                      /\ req[r].pc = "idle" /\ req'[r].op = "update_order_status"
                      /\ req'[r].success
                      /\ req'[r].user = RestaurantById(o.restaurant_id).owner_id]_vars

\* the owner of restaurant 1 was refused on an Order of restaurant 2
C20_Witness ==
    \E r \in Slots :
       /\ req[r].pc = "done" /\ req[r].op = "update_order_status"
       /\ req[r].message = MsgUnauthorized
       /\ \E o \in orders :
             /\ RestaurantById(o.restaurant_id).owner_id # req[r].user
             /\ o.status = "pending"


\* C21: every successful change of an order's status is followed by one
\* notification for that order to the order's customer: once the handler has
\* answered "Order status updated", a Notification has been created.
C21_StatusChangeNotifies ==
    \A r \in Slots :
       (req[r].pc = "done" /\ req[r].op = "update_order_status" /\ req[r].success)
          => \E k \in 1..Len(notifications) :
                \E o \in orders : /\ notifications[k].order_id = o.id
                                  /\ notifications[k].user_id = o.customer_id

\* C22: a notification whose storing fails ends like any other: the call
\* returns to its caller, and no order, committed status included, changes.
C22_NotificationBestEffort ==
    [][(/\ Len(notifications') > Len(notifications)
        /\ in_app_notifications' = in_app_notifications)
         => /\ notify_result' = "returned"
            /\ orders' = orders
            /\ order_items' = order_items]_vars

\* a status change was committed, then a notification for that order was
\* created and could not be stored
C22_Witness ==
    /\ \E o \in orders : o.id = 1 /\ o.status = "confirmed"
    /\ \E k \in 1..Len(notifications) :
          /\ notifications[k].order_id = 1
          /\ ~ \E n \in in_app_notifications : n.order_id = 1
    /\ notify_result = "returned"

\* C24: a step of a cart request or of a place-order request of user U leaves
\* the cart rows of every other user as they are, and every Order it creates
\* has customer_id = U.
C24_CartConfinedToCaller ==
    [][\A r \in Slots :
          req'[r] # req[r] =>
             LET u == IF req[r].pc = "idle" THEN req'[r].user ELSE req[r].user
             IN /\ {c \in cart' : c.user_id # u} = {c \in cart : c.user_id # u}
                /\ \A o \in orders' \ orders : o.customer_id = u]_vars

\* customer 1 has placed an order while customer 2 had a row in the cart
C24_Witness ==
    /\ \E o \in orders : o.customer_id = 1
    /\ \E c \in cart : c.user_id = 2
    /\ \E r \in Slots : /\ req[r].pc = "done" /\ req[r].op = "place_order"
                        /\ req[r].user = 1 /\ req[r].success

\* C25: a cart request or a place-order request of a caller who is not a
\* logged-in customer is answered at once with a failure, and cart, orders and
\* order_items stay as they were.
C25_OnlyCustomersMutate ==
    [][\A r \in Slots :
          (/\ req[r].pc = "idle"
           /\ req'[r].pc # "idle"
           /\ Role[req'[r].user] # "customer")
             => /\ req'[r].pc = "done"
                /\ ~ req'[r].success
                /\ cart' = cart
                /\ orders' = orders
                /\ order_items' = order_items]_vars

\* a visitor who is not logged in has asked to place an order while a
\* customer's cart was filled
C25_Witness ==
    /\ cart # {}
    /\ \E r \in Slots : /\ req[r].pc = "done" /\ req[r].op = "place_order"
                        /\ req[r].user = 0 /\ ~ req[r].success
                        /\ req[r].message = MsgLoginRequired

\* C26: for each client address, the requests passed on to the wrapped
\* function in any span of `window` seconds are at most max_requests, also
\* when the requests of one address are handled side by side.
C26_RateBound ==
    \A ip \in ClientIps : \A a \in 0..MaxClock :
       Cardinality({k \in 1..Len(admitted) :
                      /\ admitted[k].ip = ip
                      /\ a <= admitted[k].time
                      /\ admitted[k].time < a + window}) <= max_requests

\* C27: get(k) returns the value of the most recent set of k that no delete
\* or clear followed, as long as its expiry time has not passed, and leaves
\* both maps alone; otherwise it returns None, and k is in neither map
\* afterwards.  A set with expiry_seconds <= 0 never expires, whatever an
\* earlier set of the key asked for.
C27_CacheGetSetExpiry ==
    [][\A k \in CacheKeys :
          cache_get(k) =>
             IF k \in DOMAIN last_set /\ (last_set[k].expires => now <= last_set[k].at)
             THEN /\ cache_result' = last_set[k].value
                  /\ cache_values' = cache_values
                  /\ cache_expiry' = cache_expiry
             ELSE /\ cache_result' = "None"
                  /\ k \notin DOMAIN cache_values'
                  /\ k \notin DOMAIN cache_expiry']_vars

\* a key was set with an expiry and read after that time had passed: the
\* read returned None and took the key out of the maps
C27_Witness ==
    \E k \in DOMAIN last_set :
       /\ last_set[k].expires
       /\ last_set[k].at < now
       /\ k \notin DOMAIN cache_values
       /\ k \notin DOMAIN cache_expiry
       /\ cache_result = "None"

\* C28: clear_restaurant_cache(r) removes the four entries of restaurant r
\* and leaves every other entry of the cache as it was.
C28_ClearsOnlyThatRestaurant ==
    [][\A rid \in CachedRestaurants :
          clear_restaurant_cache(rid) =>
             LET own == {Key(p, rid) : p \in RestaurantPrefixes}
             IN /\ DOMAIN cache_values' = DOMAIN cache_values \ own
                /\ \A k \in DOMAIN cache_values' : cache_values'[k] = cache_values[k]]_vars

\* C29: in every state and for every menu item, MenuItem.is_mostly_ordered,
\* the value view_restaurant computes and the value restaurant_detail and
\* manage_menu_all compute for the item's restaurant are the same boolean.
C29_MostlyOrderedAgree ==
    \A m \in menu_items :
       LET mostly_ordered == is_mostly_ordered(m.id)
       IN /\ view_restaurant_mostly_ordered(m.id) = mostly_ordered
          /\ restaurant_detail_mostly_ordered(m.restaurant_id, m.id) = mostly_ordered
          /\ manage_menu_all_mostly_ordered(m.restaurant_id, m.id) = mostly_ordered

\* an item has become mostly ordered by an order placed today, while an order
\* of another day and an order of today at the other restaurant are in the table
C29_Witness ==
    /\ \E m \in menu_items : /\ is_mostly_ordered(m.id)
                             /\ restaurant_detail_mostly_ordered(m.restaurant_id, m.id)
                             /\ order_quantity_today(m.id) \in {11, 12}
    /\ \E o \in orders : UtcDate(o.created_at) # Today
    /\ \E o \in orders : o.restaurant_id = 2 /\ UtcDate(o.created_at) = Today
    /\ \E r \in Slots : req[r].pc = "done" /\ req[r].op = "place_order" /\ req[r].success

\* C23: the menu item of every OrderItem and the restaurant of every Order
\* exist, whatever delete request ran beside the place_order that created them.
C23_OrdersKeepTheirReferents ==
    /\ \A l \in order_items : \E m \in menu_items : m.id = l.menu_item_id
    /\ \A o \in orders : \E x \in restaurants : x.id = o.restaurant_id

\* C30: every cart row references a menu item that exists.
C30_CartRowsReferenceMenuItems ==
    \A c \in cart : \E m \in menu_items : m.id = c.menu_item_id
====
